---- MODULE Spec2Model ----
(***************************************************************************)
(* Model of internal/webpagetest.py: the WebPageTest controller's          *)
(* constructor (server / scheduler-node configuration) and get_test, the   *)
(* polling loop with its outage clock (first_failure) and reboot request.  *)
(***************************************************************************)
EXTENDS Integers, Sequences, FiniteSets, TLC

\* ------------------------------------------------------------------------
\* Bounds of the model
\* ------------------------------------------------------------------------
\* The monotonic clock (whole seconds) never advances past MaxTime.
MaxTime == 1802

\* Amounts by which the monotonic clock advances between two readings.
TickSteps == {899, 900, 901}

\* Jobs waiting in fetch_queue; a put waits while the queue holds MaxQueue.
MaxQueue == 1

\* Files in the metrics directory.
MaxFiles == 2

\* ------------------------------------------------------------------------
\* Python values
\* ------------------------------------------------------------------------
None == [type |-> "NoneType"]

Float(v) == [type |-> "float", value |-> v]

Dict(k, v) == [type |-> "dict", key |-> k, value |-> v]

\* A string option "a,b" is represented by its comma-separated parts,
\* Str(<<"a", "b">>); an unset option is None.
Str(parts) == [type |-> "str", parts |-> parts]

ServerOptions ==
    {None, Str(<<"www.webpagetest.org">>),
     Str(<<"http://a/work/", "http://b/work/">>)}

SchedulerNodeOptions == {None, Str(<<"node1", "node2">>)}

\* str.split(','): the list of the comma-separated parts.
split(str) == str.parts

\* Response bodies are sequences of tokens, so that len() is the real length.
EmptyBody == <<>>

JobBody == <<"{", "\"Test ID\"", ":", "\"T1\"", "}">>

NullBody == <<"null">>

MalformedBody == <<"<html>">>

Bodies == {EmptyBody, JobBody, NullBody, MalformedBody}

Statuses == {200, 503}

\* json.loads: a JSON null, a one-member JSON object, or ValueError.
json_loads(text) ==
    IF text = <<"null">>
    THEN [raised |-> "none", value |-> None]
    ELSE IF Len(text) = 5 /\ text[1] = "{" /\ text[3] = ":" /\ text[5] = "}"
                          /\ text[2] \notin {"{", "}", ":"}
                          /\ text[4] \notin {"{", "}", ":"}
    THEN [raised |-> "none", value |-> Dict(text[2], text[4])]
    ELSE [raised |-> "ValueError", value |-> None]

\* ------------------------------------------------------------------------
\* What session.get can do: raise, or return a response
\* ------------------------------------------------------------------------
Raise(class) == [kind |-> "exception", class |-> class]

Response(status, text) == [kind |-> "response", status |-> status, text |-> text]

\* What the endpoint (or the network on the way to it) does with one GET.
Outcomes ==
    {Raise("Timeout"), Raise("ConnectionError")}
        \cup {Response(s, b) : s \in Statuses, b \in Bodies}

\* requests.exceptions.RequestException and its subclasses.
RequestExceptions == {"Timeout", "ConnectionError", "MissingSchema"}

\* Subclasses of Exception that the try body can raise.
Exceptions == RequestExceptions \cup {"ValueError"}

\* session.get(url): a URL without a scheme (self.url = '') is rejected by
\* the client before anything is sent; otherwise the endpoint decides.
session_get(base, answer) ==
    IF base = "" THEN Raise("MissingSchema") ELSE answer

VARIABLES
    pubsub,           \* options.pubsub
    work_servers,     \* self.work_servers
    scheduler_nodes,  \* self.scheduler_nodes
    url,              \* self.url
    first_failure,    \* self.first_failure: None or Float(t)
    is_rebooting,     \* self.is_rebooting
    is_dead,          \* self.is_dead
    raw_job,          \* self.raw_job
    clock,            \* the value monotonic() returns
    endpoint,         \* what the endpoint does with the next GET
    pc,               \* "idle", "while" (at the loop test) or "done"
    count,            \* local count
    retry,            \* local retry
    job,              \* local job
    attempts,         \* the GETs of the current call, in order
    log,              \* levels of the records logged by the current call
    exit,             \* where the last call ended
    result,           \* what the last call returned
    entry,            \* the agent state when the current call was made
    reboot_calls,     \* number of times self.reboot() was invoked
    reboot_requests,  \* number of reboots the collaborator has requested
    fetch_queue,      \* self.fetch_queue
    metrics_dir,      \* the custom/metrics directory on disk
    custom_metrics,   \* self.custom_metrics
    loaded            \* load_local_custom_metrics has run

config == <<pubsub, work_servers, scheduler_nodes, url>>

agent == <<first_failure, is_rebooting, is_dead, raw_job>>

locals == <<count, retry, job>>

call == <<pc, attempts, log, exit, result, entry>>

reboots == <<reboot_calls, reboot_requests>>

metrics == <<metrics_dir, custom_metrics, loaded>>

vars == <<config, agent, clock, endpoint, locals, call, reboots, fetch_queue,
          metrics>>

\* ------------------------------------------------------------------------
\* WebPageTest.__init__
\* ------------------------------------------------------------------------
\* self.work_servers and self.url, from options.server.
init_work_servers(server) ==
    IF server # None
    THEN LET work_servers_str ==
                 IF server = Str(<<"www.webpagetest.org">>)
                 THEN Str(<<"http://www.webpagetest.org/">>)
                 ELSE server
         IN  split(work_servers_str)
    ELSE <<>>

init_url(server) ==
    IF server # None THEN init_work_servers(server)[1] ELSE ""

\* self.scheduler_nodes, from options.schedulernode.
init_scheduler_nodes(schedulernode) ==
    IF schedulernode # None THEN split(schedulernode) ELSE <<>>

\* ------------------------------------------------------------------------
\* WebPageTest.load_local_custom_metrics
\* ------------------------------------------------------------------------
\* File names and file contents are sequences of characters.
JsSuffix == <<".", "j", "s">>

FileNames ==
    {<<"a">> \o JsSuffix, <<"b", "b">> \o JsSuffix,
     <<"a", ".", "t", "x", "t">>, JsSuffix}

FileContents == {<<>>, <<"x">>, <<"x", "\r", "\n", "y">>}

File(name, readable, content) ==
    [name |-> name, readable |-> readable, content |-> content]

\* The directories: at most MaxFiles files, one of each name.
Directories ==
    {[isdir |-> TRUE, files |-> {File(n, a[n][1], a[n][2]) : n \in ns}] :
        ns \in {x \in SUBSET FileNames : Cardinality(x) <= MaxFiles},
        a \in [FileNames -> BOOLEAN \X FileContents]}
        \cup {[isdir |-> FALSE, files |-> {}]}

\* fnmatch of a name against '*.js': the suffix, and no leading dot.
glob_js(name) ==
    /\ Len(name) >= 3
    /\ SubSeq(name, Len(name) - 2, Len(name)) = JsSuffix
    /\ name[1] # "."

\* glob.glob(metrics_dir + '/*.js')
glob(dir) == {f \in dir.files : glob_js(f.name)}

\* f.read() of a file opened 'rt': "\r\n" and "\r" are read as "\n".
RECURSIVE read_text(_)
read_text(content) ==
    IF content = <<>> THEN <<>>
    ELSE IF Head(content) = "\r"
    THEN IF Len(content) >= 2 /\ content[2] = "\n"
         THEN <<"\n">> \o read_text(SubSeq(content, 3, Len(content)))
         ELSE <<"\n">> \o read_text(Tail(content))
    ELSE <<Head(content)>> \o read_text(Tail(content))

\* os.path.basename(file)[:-3]
metric_name(name) == SubSeq(name, 1, Len(name) - 3)

\* self.custom_metrics[key] = value
dict_set(dict, key, value) ==
    [k \in DOMAIN dict \cup {key} |-> IF k = key THEN value ELSE dict[k]]

\* A variant of the loop body that stores empty values too.
load_file_keeps_empty(dict, f) ==
    IF ~f.readable THEN dict
    ELSE dict_set(dict, metric_name(f.name), read_text(f.content))

\* Lines 134-145: the body of the loop for one file.
load_file(dict, f) ==
    IF ~f.readable
    THEN dict
    ELSE LET metric_value == read_text(f.content)
         IN  IF Len(metric_value) # 0
             THEN dict_set(dict, metric_name(f.name), metric_value)
             ELSE dict

\* Lines 133-145: the loop over the files glob returned.
RECURSIVE load_files(_, _)
load_files(dict, files) ==
    IF files = {} THEN dict
    ELSE LET f == CHOOSE x \in files : TRUE
         IN  load_files(load_file(dict, f), files \ {f})

\* Lines 126-145.
load_local_custom_metrics(dict, dir) ==
    IF dir.isdir THEN load_files(dict, glob(dir)) ELSE dict

\* The agent state a call starts from.
Snapshot(ff, rebooting, dead, raw) ==
    [first_failure |-> ff, is_rebooting |-> rebooting, is_dead |-> dead,
     raw_job |-> raw]

Init ==
    /\ \E server \in ServerOptions, schedulernode \in SchedulerNodeOptions :
          /\ work_servers = init_work_servers(server)
          /\ url = init_url(server)
          /\ scheduler_nodes = init_scheduler_nodes(schedulernode)
    /\ pubsub \in BOOLEAN
    /\ first_failure = None
    /\ is_rebooting = FALSE
    /\ is_dead = FALSE
    /\ raw_job = None
    /\ clock = 0
    /\ endpoint \in Outcomes
    /\ pc = "idle"
    /\ count = 0
    /\ retry = TRUE
    /\ job = None
    /\ attempts = <<>>
    /\ log = <<>>
    /\ exit = "none"
    /\ result = None
    /\ entry = Snapshot(None, FALSE, FALSE, None)
    /\ reboot_calls = 0
    /\ reboot_requests = 0
    /\ fetch_queue = <<>>
    /\ metrics_dir = [isdir |-> FALSE, files |-> {}]
    /\ custom_metrics = load_local_custom_metrics(<<>>, metrics_dir)
    /\ loaded = TRUE

\* ------------------------------------------------------------------------
\* WebPageTest.get_test
\* ------------------------------------------------------------------------
\* Variants of the guard that forget one of its three conditions.
guard_ignores_dead(rebooting, dead, push) == rebooting \/ push

guard_ignores_pubsub(rebooting, dead, push) == rebooting \/ dead

guard_ignores_rebooting(rebooting, dead, push) == dead \/ push

\* Line 149: the call returns at once.
get_test_guard(rebooting, dead, push) == rebooting \/ dead \/ push

\* A variant of the endpoint check that no list satisfies.
no_endpoint_never(servers, nodes) == Len(servers) < 0 /\ Len(nodes) < 0

\* Line 155: nothing to poll.
no_endpoint(servers, nodes) == Len(servers) = 0 /\ Len(nodes) = 0

\* A variant of the loop test that forgets the retry flag.
loop_test_ignores_retry(c, r) == c < 3

\* A variant of the loop test that forgets the flag and is off by one.
loop_test_off_by_one(c, r) == c <= 3

\* Line 169: the loop test.
loop_test(c, r) == c < 3 /\ r

\* A variant of the outage test that fires at the threshold itself.
outage_at_threshold(elapsed) == elapsed >= 1800

\* Line 198: the sustained-outage test.
outage(elapsed) == elapsed > 1800

\* Lines 175-180: the try body. It raises, or it leaves job as it was
\* (empty text) or bound to the parsed text.
try_body(got, j) ==
    IF got.kind = "exception"
    THEN [raised |-> got.class, job |-> j]
    ELSE IF Len(got.text) # 0
    THEN LET parsed == json_loads(got.text)
         IN  IF parsed.raised = "none"
             THEN [raised |-> "none", job |-> parsed.value]
             ELSE [raised |-> parsed.raised, job |-> j]
    ELSE [raised |-> "none", job |-> j]

\* A variant of the handlers that takes every error for a network failure.
except_clause_all_network(class) == "RequestException"

\* A variant of the handlers without the catch-all clause.
except_clause_narrow(class) ==
    IF class \in RequestExceptions THEN "RequestException" ELSE "uncaught"

\* Lines 182 and 202: the except clause that takes an exception.
except_clause(class) ==
    IF class \in RequestExceptions THEN "RequestException"
    ELSE IF class \in Exceptions THEN "Exception"
    ELSE "uncaught"

\* self.reboot(): a one-way latch on is_rebooting around the reboot request.
reboot(rebooting, requests) ==
    IF rebooting
    THEN [is_rebooting |-> TRUE, reboot_requests |-> requests, raised |-> "none"]
    ELSE [is_rebooting |-> TRUE, reboot_requests |-> requests + 1,
          raised |-> "none"]

Logged(level, msg) == [level |-> level, msg |-> msg]

\* No call is in progress and the last return value has been taken.
CallStarts == pc = "idle"

\* A variant of the guarded return that restarts the outage clock.
GetTestGuard_clears_clock ==
    /\ CallStarts
    /\ get_test_guard(is_rebooting, is_dead, pubsub)
    /\ entry' = Snapshot(first_failure, is_rebooting, is_dead, raw_job)
    /\ pc' = "done"
    /\ exit' = "guard"
    /\ result' = None
    /\ attempts' = <<>>
    /\ log' = <<>>
    /\ first_failure' = None
    /\ UNCHANGED <<metrics, fetch_queue, config, is_rebooting, is_dead,
                   raw_job, clock, endpoint, locals, reboots>>

\* Lines 149-150.
GetTestGuard ==
    /\ CallStarts
    /\ get_test_guard(is_rebooting, is_dead, pubsub)
    /\ entry' = Snapshot(first_failure, is_rebooting, is_dead, raw_job)
    /\ pc' = "done"
    /\ exit' = "guard"
    /\ result' = None
    /\ attempts' = <<>>
    /\ log' = <<>>
    /\ UNCHANGED <<metrics, fetch_queue, config, agent, clock, endpoint, locals, reboots>>

\* Lines 155-160.
GetTestNoEndpoint ==
    /\ CallStarts
    /\ ~get_test_guard(is_rebooting, is_dead, pubsub)
    /\ no_endpoint(work_servers, scheduler_nodes)
    /\ entry' = Snapshot(first_failure, is_rebooting, is_dead, raw_job)
    /\ pc' = "done"
    /\ exit' = "no_endpoint"
    /\ result' = None
    /\ attempts' = <<>>
    /\ log' = <<Logged("critical", "No work servers or scheduler nodes configured")>>
    /\ UNCHANGED <<metrics, fetch_queue, config, agent, clock, endpoint, locals, reboots>>

\* Lines 162-168.
GetTestEnter ==
    /\ CallStarts
    /\ ~get_test_guard(is_rebooting, is_dead, pubsub)
    /\ ~no_endpoint(work_servers, scheduler_nodes)
    /\ entry' = Snapshot(first_failure, is_rebooting, is_dead, raw_job)
    /\ job' = None
    /\ raw_job' = None
    /\ count' = 0
    /\ retry' = TRUE
    /\ pc' = "while"
    /\ exit' = "none"
    /\ result' = None
    /\ attempts' = <<>>
    /\ log' = <<>>
    /\ UNCHANGED <<metrics, fetch_queue, config, first_failure, is_rebooting, is_dead, clock,
                   endpoint, reboots>>

\* A variant of the handler that stamps first_failure at every failure.
on_request_exception_restamps(now, ff, rebooting, calls, requests) ==
    LET ff1 == Float(now)
        elapsed == now - ff1.value
        rb == reboot(rebooting, requests)
    IN  IF outage(elapsed)
        THEN [first_failure |-> ff1, is_rebooting |-> rb.is_rebooting,
              reboot_calls |-> calls + 1,
              reboot_requests |-> rb.reboot_requests, raised |-> rb.raised]
        ELSE [first_failure |-> ff1, is_rebooting |-> rebooting,
              reboot_calls |-> calls, reboot_requests |-> requests,
              raised |-> "none"]

\* Lines 194-200: the RequestException handler, after its logging.
on_request_exception(now, ff, rebooting, calls, requests) ==
    LET ff1 == IF ff = None THEN Float(now) ELSE ff
        elapsed == now - ff1.value
        rb == reboot(rebooting, requests)
    IN  IF outage(elapsed)
        THEN [first_failure |-> ff1, is_rebooting |-> rb.is_rebooting,
              reboot_calls |-> calls + 1,
              reboot_requests |-> rb.reboot_requests, raised |-> rb.raised]
        ELSE [first_failure |-> ff1, is_rebooting |-> rebooting,
              reboot_calls |-> calls, reboot_requests |-> requests,
              raised |-> "none"]

\* Lines 169-206: one iteration of the loop.
LoopAttempt ==
    /\ pc = "while"
    /\ loop_test(count, retry)
    /\ LET got == session_get(url, endpoint)
           body == try_body(got, job)
           clause == IF body.raised = "none" THEN "none"
                     ELSE except_clause(body.raised)
           h == on_request_exception(clock, first_failure, is_rebooting,
                                     reboot_calls, reboot_requests)
           escaped == IF clause = "uncaught" THEN body.raised
                      ELSE IF clause = "RequestException" THEN h.raised
                      ELSE "none"
       IN  /\ retry' = FALSE
           /\ count' = count + 1
           /\ attempts' = Append(attempts,
                                 [url |-> url, got |-> got, at |-> clock])
           /\ job' = body.job
           /\ log' = log \o <<Logged("info", "Checking for work")>>
                        \o (IF clause = "RequestException"
                            THEN <<Logged("critical", "Get Work Error connecting")>>
                            ELSE IF clause = "Exception"
                            THEN <<Logged("error", "Unexpected error in get_test")>>
                            ELSE <<>>)
           /\ IF clause = "RequestException"
              THEN /\ first_failure' = h.first_failure
                   /\ is_rebooting' = h.is_rebooting
                   /\ reboot_calls' = h.reboot_calls
                   /\ reboot_requests' = h.reboot_requests
              ELSE UNCHANGED <<first_failure, is_rebooting, reboots>>
           /\ IF escaped = "none"
              THEN /\ pc' = "while"
                   /\ UNCHANGED <<exit, result>>
              ELSE /\ pc' = "done"
                   /\ exit' = "raised"
                   /\ result' = None
    /\ endpoint' \in Outcomes
    /\ UNCHANGED <<metrics, fetch_queue, config, is_dead, raw_job, clock, entry>>

\* Lines 169 and 208: the loop ends and the call returns job.
LoopExit ==
    /\ pc = "while"
    /\ ~loop_test(count, retry)
    /\ pc' = "done"
    /\ exit' = "return"
    /\ result' = job
    /\ UNCHANGED <<metrics, fetch_queue, config, agent, clock, endpoint, locals, attempts, log,
                   entry, reboots>>

\* ------------------------------------------------------------------------
\* Environment
\* ------------------------------------------------------------------------
\* The monotonic clock advances.
Tick ==
    /\ \E d \in TickSteps :
          /\ clock + d <= MaxTime
          /\ clock' = clock + d
    /\ UNCHANGED <<metrics, fetch_queue, config, agent, endpoint, locals, call, reboots>>

\* The agent is marked dead by its owner.
MarkDead ==
    /\ ~is_dead
    /\ is_dead' = TRUE
    /\ UNCHANGED <<metrics, fetch_queue, config, first_failure, is_rebooting, raw_job, clock,
                   endpoint, locals, call, reboots>>

\* The polling loop takes what get_test returned and puts a Job on
\* fetch_queue.
has_job_always(value) == TRUE

has_job(value) == value # None

Dispatch ==
    /\ pc = "done"
    /\ IF exit = "return" /\ has_job(result)
       THEN /\ Len(fetch_queue) < MaxQueue
            /\ fetch_queue' = Append(fetch_queue, result)
       ELSE fetch_queue' = fetch_queue
    /\ pc' = "idle"
    /\ UNCHANGED <<metrics, config, agent, clock, endpoint, locals, attempts,
                   log, exit, result, entry, reboots>>

\* An execution worker takes the next Job from fetch_queue.
WorkerTake ==
    /\ fetch_queue # <<>>
    /\ fetch_queue' = Tail(fetch_queue)
    /\ UNCHANGED <<metrics, config, agent, clock, endpoint, locals, call,
                   reboots>>

Next ==
    \/ Dispatch
    \/ WorkerTake
    \/ GetTestGuard
    \/ GetTestNoEndpoint
    \/ GetTestEnter
    \/ LoopAttempt
    \/ LoopExit
    \/ Tick
    \/ MarkDead

Spec == Init /\ [][Next]_vars

\* A call that has started keeps running: session.get is bounded by its
\* 10 s timeout and the handler's sleep by 100 ms.
FairSpec == Spec /\ WF_vars(LoopAttempt) /\ WF_vars(LoopExit)

\* The constructor's call of load_local_custom_metrics (line 116), for every
\* metrics directory.
MetricsInit ==
    /\ work_servers = <<>>
    /\ url = ""
    /\ scheduler_nodes = <<>>
    /\ pubsub = FALSE
    /\ first_failure = None
    /\ is_rebooting = FALSE
    /\ is_dead = FALSE
    /\ raw_job = None
    /\ clock = 0
    /\ endpoint = Raise("ConnectionError")
    /\ pc = "idle"
    /\ count = 0
    /\ retry = TRUE
    /\ job = None
    /\ attempts = <<>>
    /\ log = <<>>
    /\ exit = "none"
    /\ result = None
    /\ entry = Snapshot(None, FALSE, FALSE, None)
    /\ reboot_calls = 0
    /\ reboot_requests = 0
    /\ fetch_queue = <<>>
    /\ metrics_dir \in Directories
    /\ custom_metrics = <<>>
    /\ loaded = FALSE

LoadLocalCustomMetrics ==
    /\ ~loaded
    /\ custom_metrics' = load_local_custom_metrics(custom_metrics, metrics_dir)
    /\ loaded' = TRUE
    /\ UNCHANGED <<metrics_dir, fetch_queue, config, agent, clock, endpoint,
                   locals, call, reboots>>

MetricsNext == LoadLocalCustomMetrics

MetricsSpec == MetricsInit /\ [][MetricsNext]_vars

TypeOK ==
    /\ pubsub \in BOOLEAN
    /\ is_rebooting \in BOOLEAN
    /\ is_dead \in BOOLEAN
    /\ clock \in 0..MaxTime
    /\ pc \in {"idle", "while", "done"}
    /\ count \in 0..3
    /\ Len(attempts) = IF pc = "while" THEN count ELSE Len(attempts)

\* ------------------------------------------------------------------------
\* Properties
\* ------------------------------------------------------------------------
\* The attempt ended in the RequestException handler.
NetFail(a) == a.got.kind = "exception" /\ a.got.class \in RequestExceptions

\* The answer is a response whose text is empty.
EmptyAnswer(got) == got.kind = "response" /\ Len(got.text) = 0

\* The answer is a response whose text is non-empty, valid JSON.
JsonAnswer(got) ==
    /\ got.kind = "response"
    /\ Len(got.text) # 0
    /\ json_loads(got.text).raised = "none"

LastAttempt == attempts[Len(attempts)]

\* The current call got past the guard and the endpoint check.
PassedGuards == pc = "while" \/ (pc = "done" /\ exit \in {"return", "raised"})

Returned == pc = "done" /\ exit = "return"

\* C1: a call that passes the guards and sees only network-level failures
\* makes exactly 3 GET attempts and returns absent.
C1_ThreeAttemptsOnFailures ==
    (/\ pc = "done"
     /\ PassedGuards
     /\ \A i \in 1..Len(attempts) : NetFail(attempts[i]))
        => (Len(attempts) = 3 /\ exit = "return" /\ result = None)

\* What the endpoint answers (or would answer) to the 2nd GET of the call.
SecondAnswer ==
    IF Len(attempts) >= 2 THEN attempts[2].got ELSE session_get(url, endpoint)

\* C2: when attempt 1 is a network-level failure and the endpoint answers
\* attempt 2 with non-empty valid JSON, the call makes exactly 2 attempts and
\* returns the Job parsed from that body.
C2_SecondAttemptReturnsJob ==
    (/\ pc = "done"
     /\ PassedGuards
     /\ Len(attempts) >= 1
     /\ NetFail(attempts[1])
     /\ JsonAnswer(SecondAnswer))
        => (/\ Len(attempts) = 2
            /\ exit = "return"
            /\ result = json_loads(SecondAnswer.text).value)

\* C3: an attempt that receives an empty body is the last GET of its call,
\* and the call returns absent.
C3_EmptyBodyEndsCall ==
    \A i \in 1..Len(attempts) :
        EmptyAnswer(attempts[i].got)
            => (/\ i = Len(attempts)
                /\ job = None
                /\ pc = "done" => (exit = "return" /\ result = None))

C3_Witness == Returned /\ Len(attempts) = 1 /\ EmptyAnswer(LastAttempt.got)

\* C4: a call made while is_dead or is_rebooting is true returns absent and
\* issues no GET, whatever happened before.
C4_DeadOrRebootingNoPoll ==
    (pc # "idle" /\ (entry.is_dead \/ entry.is_rebooting))
        => (/\ pc = "done"
            /\ exit = "guard"
            /\ result = None
            /\ attempts = <<>>)

C4_Witness ==
    /\ pc = "done"
    /\ exit = "guard"
    /\ ~pubsub
    /\ entry.is_rebooting
    /\ entry.is_dead

\* C5: with push-delivery enabled a call returns absent and issues no GET,
\* whatever work servers and scheduler nodes are configured.
C5_PubsubNoPoll ==
    pubsub => (/\ attempts = <<>>
               /\ pc \in {"idle", "done"}
               /\ pc = "done" => (exit = "guard" /\ result = None))

C5_Witness ==
    /\ pubsub
    /\ pc = "done"
    /\ Len(work_servers) > 0
    /\ Len(scheduler_nodes) > 0

NoEndpointConfigured == Len(work_servers) = 0 /\ Len(scheduler_nodes) = 0

ConfigurationError ==
    /\ pc = "done"
    /\ exit = "no_endpoint"
    /\ result = None
    /\ attempts = <<>>
    /\ Len(log) = 1
    /\ log[1].level = "critical"
    /\ log[1].msg = "No work servers or scheduler nodes configured"

\* C6 as stated: with no work server, no scheduler node and push-delivery
\* disabled, every call returns absent, logs one critical configuration
\* error and issues no GET.
C6_Original ==
    (pc # "idle" /\ NoEndpointConfigured /\ ~pubsub) => ConfigurationError

\* C6 as amended: with no work server, no scheduler node and push-delivery
\* disabled, a call made while the agent is neither dead nor rebooting
\* returns absent, logs one critical configuration error and issues no GET.
C6_NoEndpointConfigurationError ==
    (/\ pc # "idle"
     /\ NoEndpointConfigured
     /\ ~pubsub
     /\ ~entry.is_dead
     /\ ~entry.is_rebooting) => ConfigurationError

C6_Witness ==
    NoEndpointConfigured /\ ~pubsub /\ ~entry.is_dead /\ ConfigurationError

\* This step is one attempt that ends in a network-level failure.
FailureStep ==
    /\ pc = "while"
    /\ Len(attempts') = Len(attempts) + 1
    /\ NetFail(attempts'[Len(attempts')])

\* C7: a network-level failure requests a reboot exactly when the time since
\* first_failure is strictly greater than 1800 seconds (one request at
\* t0+1801, none at t0+1799 or t0+1800).
C7_RebootOnlyPast1800 ==
    [][FailureStep =>
         LET t0 == IF first_failure = None THEN clock ELSE first_failure.value
             elapsed == clock - t0
         IN  /\ elapsed > 1800 => reboot_calls' = reboot_calls + 1
             /\ elapsed <= 1800 => reboot_calls' = reboot_calls]_vars

C7_Witness ==
    /\ Len(attempts) >= 1
    /\ NetFail(LastAttempt)
    /\ first_failure # None
    /\ LastAttempt.at - first_failure.value = 1801
    /\ reboot_calls = 1

\* C8: over any sequence of calls and fetch outcomes the reboot collaborator
\* is invoked at most once.
C8_RebootAtMostOnce == reboot_calls <= 1 /\ reboot_requests <= 1

C8_Witness ==
    /\ reboot_calls = 1
    /\ pc = "done"
    /\ exit = "guard"
    /\ entry.is_rebooting
    /\ ~is_dead

\* The answer is a successful fetch: a parsed body, or an empty one.
SuccessfulFetch(got) == EmptyAnswer(got) \/ JsonAnswer(got)

\* C9: after a call that ends with a successful fetch, first_failure is
\* unset.
C9_SuccessClearsFirstFailure ==
    (Returned /\ Len(attempts) >= 1 /\ SuccessfulFetch(LastAttempt.got))
        => first_failure = None

C11_TerminatesWithinThreeGets ==
    /\ [](Len(attempts) <= 3)
    /\ [](pc = "while" => <>(pc = "done"))

C11_Witness ==
    /\ Returned
    /\ Len(attempts) = 1
    /\ LastAttempt.got.kind = "response"
    /\ LastAttempt.got.text = JobBody
    /\ result # None

\* The answer is a response with a non-success HTTP status.
ErrorStatus(got) == got.kind = "response" /\ got.status \notin 200..299

\* C12: an attempt answered with a non-success HTTP status is handled as a
\* network-level failure: it sets the outage clock, logs the error and is
\* never taken as a successful fetch.
C12_ErrorStatusIsFailure ==
    \A i \in 1..Len(attempts) :
        ErrorStatus(attempts[i].got)
            => (/\ first_failure # None
                /\ \E k \in 1..Len(log) : log[k].level = "critical"
                /\ job = None
                /\ pc = "done" => result = None)

\* C13: a Job that get_test returned is put on fetch_queue, once, before the
\* next call; a call that returned absent puts nothing.
C13_JobPushedOnce ==
    [][/\ (pc = "done" /\ pc' # "done")
           => /\ pc' = "idle"
              /\ IF exit = "return" /\ result # None
                 THEN fetch_queue' = Append(fetch_queue, result)
                 ELSE fetch_queue' = fetch_queue
       /\ Len(fetch_queue') > Len(fetch_queue)
           => (pc = "done" /\ pc' = "idle")]_vars

C13_Witness ==
    /\ pc = "idle"
    /\ exit = "return"
    /\ result = Dict("\"Test ID\"", "\"T1\"")
    /\ fetch_queue = <<result>>

\* The *.js files of the metrics directory that can be read.
ReadableJs ==
    IF metrics_dir.isdir
    THEN {f \in metrics_dir.files : glob_js(f.name) /\ f.readable}
    ELSE {}

\* C14 as stated: after loading there is exactly one entry for every
\* readable *.js file, whatever its content, keyed by the file name without
\* extension, with the exact file content as value.
C14_Original ==
    loaded
        => /\ DOMAIN custom_metrics = {metric_name(f.name) : f \in ReadableJs}
           /\ \A f \in ReadableJs :
                  custom_metrics[metric_name(f.name)] = f.content

\* The content as text: every "\r\n" and every other "\r" is a "\n".
AsText(content) ==
    LET lf(i) == IF content[i] = "\r" THEN "\n" ELSE content[i]
        kept == {i \in 1..Len(content) :
                    ~(content[i] = "\n" /\ i > 1 /\ content[i - 1] = "\r")}
        nth(k) == CHOOSE i \in kept : Cardinality({j \in kept : j < i}) = k - 1
    IN  [k \in 1..Cardinality(kept) |-> lf(nth(k))]

\* C14 as amended: after loading there is exactly one entry for every
\* readable *.js file whose content is not empty, keyed by the file name
\* without extension, with the file's content read as text (line endings
\* as "\n") as value; unreadable files, empty files and files that do not
\* match *.js have no entry.
C14_OneEntryPerNonEmptyJs ==
    loaded
        => LET kept == {f \in ReadableJs : f.content # <<>>}
           IN  /\ DOMAIN custom_metrics = {metric_name(f.name) : f \in kept}
               /\ \A f \in kept :
                      custom_metrics[metric_name(f.name)] = AsText(f.content)

C14_Witness ==
    /\ loaded
    /\ \E f \in ReadableJs : f.content = <<"x", "\r", "\n", "y">>
    /\ \E f \in metrics_dir.files : ~f.readable /\ glob_js(f.name)
    /\ Cardinality(DOMAIN custom_metrics) = 1

\* The answer makes the try body raise something that is no network error.
UnexpectedError(got) ==
    /\ got.kind = "response"
    /\ Len(got.text) # 0
    /\ json_loads(got.text).raised # "none"

UnexpectedStep ==
    /\ pc = "while"
    /\ Len(attempts') = Len(attempts) + 1
    /\ UnexpectedError(attempts'[Len(attempts')].got)

\* C15: an attempt that ends in an unexpected error leaves first_failure
\* unchanged, requests no reboot and yields no Job.
C15_UnexpectedNotEscalated ==
    [][UnexpectedStep
         => /\ first_failure' = first_failure
            /\ is_rebooting' = is_rebooting
            /\ reboot_calls' = reboot_calls
            /\ reboot_requests' = reboot_requests
            /\ job' = job
            /\ job' = None]_vars

C15_Witness ==
    /\ Returned
    /\ Len(attempts) = 1
    /\ UnexpectedError(LastAttempt.got)
    /\ first_failure # None
    /\ LastAttempt.at - first_failure.value > 1800
    /\ reboot_calls = 0
    /\ result = None

\* C16: a network-level failure sets first_failure to the current time when
\* it is unset and leaves it alone when it is set.
C16_FirstFailureKept ==
    [][FailureStep
         => first_failure' = IF first_failure = None THEN Float(clock)
                             ELSE first_failure]_vars

C16_Witness ==
    /\ Len(attempts) >= 1
    /\ NetFail(LastAttempt)
    /\ first_failure # None
    /\ first_failure.value < LastAttempt.at
    /\ reboot_calls = 0

Range(seq) == {seq[i] : i \in 1..Len(seq)}

\* C17: every GET targets a configured work server or scheduler node, and
\* all GETs of one call target the same one.
C17_GetTargetsConfiguredEndpoint ==
    \A i \in 1..Len(attempts) :
        /\ attempts[i].url \in Range(work_servers) \cup Range(scheduler_nodes)
        /\ attempts[i].url = attempts[1].url

\* C18: a call that returns at the guard or at the endpoint check leaves
\* first_failure, raw_job, is_rebooting and is_dead as they were.
C18_EarlyReturnKeepsState ==
    [][(/\ pc = "idle"
        /\ pc' # "idle"
        /\ is_rebooting \/ is_dead \/ pubsub \/ NoEndpointConfigured)
         => /\ pc' = "done"
            /\ exit' \in {"guard", "no_endpoint"}
            /\ first_failure' = first_failure
            /\ raw_job' = raw_job
            /\ is_rebooting' = is_rebooting
            /\ is_dead' = is_dead]_vars

C18_Witness ==
    /\ pc = "done"
    /\ exit = "guard"
    /\ entry.is_dead
    /\ ~entry.is_rebooting
    /\ entry.first_failure # None
    /\ first_failure = entry.first_failure
    /\ raw_job = entry.raw_job

====
